---- MODULE Spec2Model ----
(***************************************************************************)
(* Model of HelloWorld.c: three PWM LEDs on an ESP32 driven through the    *)
(* LEDC peripheral by one FreeRTOS task that cycles through the patterns   *)
(* Knight Rider, Binary Counter and Random.                                *)
(*                                                                         *)
(* C indices are 0-based; the TLA+ sequence leds is 1-based, so C's        *)
(* leds[k] is written leds[k + 1].                                         *)
(***************************************************************************)
EXTENDS Integers, Sequences, FiniteSets

\* ------------------------------------------------------------ constants

LED1_GPIO == 2
LED2_GPIO == 4
LED3_GPIO == 5

LED1_CH == 0
LED2_CH == 1
LED3_CH == 2

LED_MODE == "LEDC_LOW_SPEED_MODE"
LED_TIMER == 0
LED_DUTY_RES == 10
LED_FREQ_HZ == 5000

STEP_DELAY == 10
BLINK_DELAY == 300

\* The literals of led_breathe's loops and of pattern_random's loop.
BREATHE_MAX == 1023
DUTY_STEP == 10
RANDOM_ITERS == 6

\* leds[] with the third entry's channel copied from the second.
InitLeds_DupChannel ==
    << [gpio |-> LED1_GPIO, channel |-> LED1_CH],
       [gpio |-> LED2_GPIO, channel |-> LED2_CH],
       [gpio |-> LED3_GPIO, channel |-> LED2_CH] >>

\* leds[] as initialised at HelloWorld.c:38-42
InitLeds ==
    << [gpio |-> LED1_GPIO, channel |-> LED1_CH],
       [gpio |-> LED2_GPIO, channel |-> LED2_CH],
       [gpio |-> LED3_GPIO, channel |-> LED3_CH] >>

\* sizeof(leds) / sizeof(leds[0])
LED_COUNT == Len(InitLeds)

\* The LEDC channels the program touches.
Channels == { InitLeds[k].channel : k \in 1..Len(InitLeds) }

\* Largest duty of the configured resolution (10 bit: 0..1023).
MaxDuty == 2 ^ LED_DUTY_RES - 1

\* esp_err_t values returned by the LEDC configuration calls.
ESP_OK == "ESP_OK"
ESP_FAIL == "ESP_FAIL"
EspErr == {ESP_OK, ESP_FAIL}

\* ------------------------------------------------------------ bounds

\* The pseudo-random generator is modelled with RandMod internal states
\* (the C library's has 2^64); esp_random() seeds it with any of them.
RandMod == 8

\* ------------------------------------------------------------ state

VARIABLES
    mainPc,      \* position of app_main: "led_init_timer", "led_init_channel",
                 \* "srand", "xTaskCreate", "done", "aborted"
    initI,       \* loop index i of led_init
    lastErr,     \* esp_err_t of the most recent LEDC configuration call
    srandCalls,  \* number of srand calls so far
    tasks,       \* number of tasks created by xTaskCreate so far
    timerCfg,    \* <<the LEDC timer's configuration>>, <<>> while unconfigured
    chanCfg,     \* LEDC channel -> <<its configuration>>, <<>> while unconfigured
    dutyReg,     \* LEDC channel -> duty set by ledc_set_duty (not yet committed)
    duty,        \* LEDC channel -> committed duty (what the pin outputs)
    leds,        \* the global array leds[]
    rngNext,     \* state of the C library's rand()
    pat,         \* pattern the task is in: "none" before the task exists
    pc,          \* position inside the pattern
    i,           \* loop index i of the running pattern
    count,       \* pattern_binary_counter's count
    led_index,   \* pattern_random's led_index
    bpc,         \* position inside led_breathe: "idle" when not inside
    bled,        \* led_breathe's parameter led_index
    bduty,       \* led_breathe's loop variable duty
    \* observers (history of the running invocation; they steer nothing)
    visits,      \* LED indices led_breathe was called on, this pattern invocation
    ops,         \* binary counter: operations on the LEDs of the current count
    counts,      \* binary counter: count values whose inner loop was started
    blinks,      \* vTaskDelay(BLINK_DELAY) calls, this pattern invocation
    rise,        \* duties written by the rise loop of this led_breathe call
    fall,        \* duties written by the fall loop of this led_breathe call
    delays,      \* vTaskDelay(STEP_DELAY) calls, this led_breathe call
    lastDelay,   \* milliseconds of the latest vTaskDelay call, 0 before the first
    lastSet      \* <<led_index, duty>> of the latest led_set_brightness call,
                 \* <<>> before the first

hw == <<timerCfg, chanCfg, dutyReg, duty>>
mainVars == <<mainPc, initI, lastErr, srandCalls, tasks>>
patVars == <<pat, pc, i, count, led_index>>
breatheVars == <<bpc, bled, bduty, rise, fall, delays>>
patObs == <<visits, ops, counts, blinks>>

vars == <<mainPc, initI, lastErr, srandCalls, tasks, timerCfg, chanCfg, dutyReg, duty, leds,
          rngNext, pat, pc, i, count, led_index, bpc, bled, bduty,
          visits, ops, counts, blinks, rise, fall, delays, lastDelay,
          lastSet>>

\* State at entry to app_main: nothing configured, registers at reset value.
Init ==
    /\ mainPc = "led_init_timer"
    /\ initI = 0
    /\ lastErr = ESP_OK
    /\ srandCalls = 0
    /\ tasks = 0
    /\ timerCfg = <<>>
    /\ chanCfg = [c \in Channels |-> <<>>]
    /\ dutyReg = [c \in Channels |-> 0]
    /\ duty = [c \in Channels |-> 0]
    /\ leds = InitLeds
    /\ rngNext = 1
    /\ pat = "none"
    /\ pc = "entry"
    /\ i = 0
    /\ count = 0
    /\ led_index = 0
    /\ bpc = "idle"
    /\ bled = 0
    /\ bduty = 0
    /\ visits = <<>>
    /\ ops = <<>>
    /\ counts = <<>>
    /\ blinks = 0
    /\ rise = <<>>
    /\ fall = <<>>
    /\ delays = 0
    /\ lastDelay = 0
    /\ lastSet = <<>>

\* ------------------------------------------------------------ startup

\* ESP_ERROR_CHECK that only logs the error and carries on.
ESP_ERROR_CHECK_WithoutAbort(err) == FALSE

\* ESP_ERROR_CHECK(x): abort() unless x is ESP_OK.
ESP_ERROR_CHECK(err) == err # ESP_OK

\* The ledc_timer_config_t of led_init.
ledc_timer ==
    [speed_mode |-> LED_MODE, timer_num |-> LED_TIMER,
     duty_resolution |-> LED_DUTY_RES, freq_hz |-> LED_FREQ_HZ]

\* The ledc_channel_config_t of led_init for C index k.
ledc_channel(k) ==
    [speed_mode |-> LED_MODE, channel |-> leds[k + 1].channel,
     timer_sel |-> LED_TIMER, gpio_num |-> leds[k + 1].gpio,
     duty |-> 0, hpoint |-> 0]

\* led_init, first half: ledc_timer_config under ESP_ERROR_CHECK.
LedInitTimer ==
    /\ mainPc = "led_init_timer"
    /\ \E err \in EspErr :
        /\ lastErr' = err
        /\ IF ESP_ERROR_CHECK(err)
             THEN /\ mainPc' = "aborted"
                  /\ UNCHANGED <<timerCfg, initI>>
             ELSE /\ timerCfg' = <<ledc_timer>>
                  /\ initI' = 0
                  /\ mainPc' = IF 0 < LED_COUNT THEN "led_init_channel" ELSE "srand"
    /\ UNCHANGED <<chanCfg, dutyReg, duty, leds, rngNext, lastSet, lastDelay>>
    /\ UNCHANGED <<srandCalls, tasks>>
    /\ UNCHANGED <<patVars, breatheVars, patObs>>

\* led_init, one iteration of the channel loop: ledc_channel_config of
\* leds[i] with duty 0 under ESP_ERROR_CHECK, then i++ and the loop test.
LedInitChannel ==
    /\ mainPc = "led_init_channel"
    /\ initI < LED_COUNT
    /\ \E err \in EspErr :
        /\ lastErr' = err
        /\ IF ESP_ERROR_CHECK(err)
             THEN /\ mainPc' = "aborted"
                  /\ UNCHANGED <<chanCfg, dutyReg, duty, initI>>
             ELSE LET cfg == ledc_channel(initI) IN
                  /\ chanCfg' = [chanCfg EXCEPT ![cfg.channel] = <<cfg>>]
                  /\ dutyReg' = [dutyReg EXCEPT ![cfg.channel] = cfg.duty]
                  /\ duty' = [duty EXCEPT ![cfg.channel] = cfg.duty]
                  /\ initI' = initI + 1
                  /\ mainPc' = IF initI + 1 < LED_COUNT
                                 THEN "led_init_channel" ELSE "srand"
    /\ UNCHANGED <<timerCfg, leds, rngNext, lastSet, lastDelay>>
    /\ UNCHANGED <<srandCalls, tasks>>
    /\ UNCHANGED <<patVars, breatheVars, patObs>>

\* app_main without its srand call: the generator keeps its default seed.
Srand_Omitted ==
    /\ mainPc = "srand"
    /\ mainPc' = "xTaskCreate"
    /\ UNCHANGED <<initI, lastErr, srandCalls, tasks, hw, leds, rngNext>>
    /\ UNCHANGED <<lastSet, lastDelay, patVars, breatheVars, patObs>>

\* srand(esp_random()): the hardware entropy source yields any seed.
Srand ==
    /\ mainPc = "srand"
    /\ \E seed \in 0..(RandMod - 1) : rngNext' = seed
    /\ srandCalls' = srandCalls + 1
    /\ mainPc' = "xTaskCreate"
    /\ UNCHANGED <<initI, lastErr, tasks, hw, leds, lastSet, lastDelay>>
    /\ UNCHANGED <<patVars, breatheVars, patObs>>

\* led_pattern_task with the last two calls of its loop body swapped.
NextPattern_Swapped(p) ==
    CASE p = "knight_rider" -> "random"
      [] p = "random" -> "binary_counter"
      [] p = "binary_counter" -> "knight_rider"

\* led_pattern_task without its while (1): the body runs once.
NextPattern_Once(p) ==
    CASE p = "knight_rider" -> "binary_counter"
      [] p = "binary_counter" -> "random"
      [] p = "random" -> "none"

\* while (1) of led_pattern_task: the pattern that runs after p.
NextPattern(p) ==
    CASE p = "knight_rider" -> "binary_counter"
      [] p = "binary_counter" -> "random"
      [] p = "random" -> "knight_rider"

\* The first pattern of led_pattern_task's loop body.
FirstPattern == "knight_rider"

\* xTaskCreate(led_pattern_task, ...), after which app_main returns.
XTaskCreate ==
    /\ mainPc = "xTaskCreate"
    /\ mainPc' = "done"
    /\ tasks' = tasks + 1
    /\ pat' = FirstPattern
    /\ pc' = "entry"
    /\ UNCHANGED <<initI, lastErr, srandCalls, hw, leds, rngNext, lastSet, lastDelay>>
    /\ UNCHANGED <<i, count, led_index, breatheVars, patObs>>

\* ------------------------------------------------------------ brightness

\* ledc_set_duty(mode, channel, d): stores d for the channel, uncommitted.
ledc_set_duty(reg, channel, d) == [reg EXCEPT ![channel] = d]

\* ledc_update_duty(mode, channel): commits the channel's stored duty.
ledc_update_duty(dty, reg, channel) == [dty EXCEPT ![channel] = reg[channel]]

\* led_set_brightness with the first LED's channel hard-coded.
led_set_brightness_FirstChannel(idx, d) ==
    /\ dutyReg' = ledc_set_duty(dutyReg, leds[1].channel, d)
    /\ duty' = ledc_update_duty(duty, dutyReg', leds[1].channel)
    /\ lastSet' = <<idx, d>>
    /\ UNCHANGED <<timerCfg, chanCfg, lastDelay>>

\* led_set_brightness with the commit left out.
led_set_brightness_NoCommit(idx, d) ==
    /\ dutyReg' = ledc_set_duty(dutyReg, leds[idx + 1].channel, d)
    /\ lastSet' = <<idx, d>>
    /\ UNCHANGED <<timerCfg, chanCfg, duty, lastDelay>>

\* led_set_brightness(led_index, duty)
led_set_brightness(idx, d) ==
    /\ dutyReg' = ledc_set_duty(dutyReg, leds[idx + 1].channel, d)
    /\ duty' = ledc_update_duty(duty, dutyReg', leds[idx + 1].channel)
    /\ lastSet' = <<idx, d>>
    /\ UNCHANGED <<timerCfg, chanCfg, lastDelay>>

\* ------------------------------------------------------------ led_breathe

\* The rise loop's bound rounded up to a whole number of steps.
RiseCond_RoundedUp(d) == d <= (BREATHE_MAX \div DUTY_STEP + 1) * DUTY_STEP

\* for (int duty = 0; duty <= 1023; duty += 10)
RiseInit == 0
RiseCond(d) == d <= BREATHE_MAX
RiseStep(d) == d + DUTY_STEP

\* The fall loop started from the last duty of the rise loop.
FallInit_RiseEnd == (BREATHE_MAX \div DUTY_STEP) * DUTY_STEP

\* The fall loop stopped one step early: duty > 10.
FallCond_Early(d) == d > DUTY_STEP

\* for (int duty = 1023; duty >= 0; duty -= 10)
FallInit == BREATHE_MAX
FallCond(d) == d >= 0
FallStep(d) == d - DUTY_STEP

\* Head of the fall loop with loop variable d: the body, or the return.
FallLoop(d) ==
    IF FallCond(d) THEN [bpc |-> "fall_set", duty |-> d]
                   ELSE [bpc |-> "ret", duty |-> 0]

\* Head of the rise loop with loop variable d: the body, or the fall loop.
RiseLoop(d) ==
    IF RiseCond(d) THEN [bpc |-> "rise_set", duty |-> d]
                   ELSE FallLoop(FallInit)

\* A call led_breathe(idx) from a pattern: control enters the rise loop.
CallBreathe(idx) ==
    /\ bled' = idx
    /\ bpc' = RiseLoop(RiseInit).bpc
    /\ bduty' = RiseLoop(RiseInit).duty
    /\ rise' = <<>>
    /\ fall' = <<>>
    /\ delays' = 0
    /\ visits' = Append(visits, idx)

\* Rise loop body, first statement: led_set_brightness(led_index, duty).
BreatheRiseSet ==
    /\ bpc = "rise_set"
    /\ led_set_brightness(bled, bduty)
    /\ rise' = Append(rise, bduty)
    /\ bpc' = "rise_delay"
    /\ UNCHANGED <<mainVars, leds, rngNext, patVars, patObs>>
    /\ UNCHANGED <<bled, bduty, fall, delays>>

\* Rise loop body, second statement: vTaskDelay(STEP_DELAY); then duty += 10
\* and the loop test.
BreatheRiseDelay ==
    /\ bpc = "rise_delay"
    /\ delays' = delays + 1
    /\ lastDelay' = STEP_DELAY
    /\ bpc' = RiseLoop(RiseStep(bduty)).bpc
    /\ bduty' = RiseLoop(RiseStep(bduty)).duty
    /\ UNCHANGED <<mainVars, hw, leds, rngNext, patVars, patObs, lastSet>>
    /\ UNCHANGED <<bled, rise, fall>>

\* Fall loop body, first statement: led_set_brightness(led_index, duty).
BreatheFallSet ==
    /\ bpc = "fall_set"
    /\ led_set_brightness(bled, bduty)
    /\ fall' = Append(fall, bduty)
    /\ bpc' = "fall_delay"
    /\ UNCHANGED <<mainVars, leds, rngNext, patVars, patObs>>
    /\ UNCHANGED <<bled, bduty, rise, delays>>

\* Fall loop body, second statement: vTaskDelay(STEP_DELAY); then duty -= 10
\* and the loop test; the function returns when the test fails.
BreatheFallDelay ==
    /\ bpc = "fall_delay"
    /\ delays' = delays + 1
    /\ lastDelay' = STEP_DELAY
    /\ bpc' = FallLoop(FallStep(bduty)).bpc
    /\ bduty' = FallLoop(FallStep(bduty)).duty
    /\ UNCHANGED <<mainVars, hw, leds, rngNext, patVars, patObs, lastSet>>
    /\ UNCHANGED <<bled, rise, fall>>

\* ------------------------------------------------------------ patterns

\* A pattern function is entered: the observers of the invocation restart.
ResetPatObs ==
    /\ visits' = <<>>
    /\ ops' = <<>>
    /\ counts' = <<>>
    /\ blinks' = 0

\* A pattern function returns to led_pattern_task's loop.
ReturnToTask ==
    /\ pat' = NextPattern(pat)
    /\ pc' = "entry"
    /\ i' = 0
    /\ count' = 0
    /\ led_index' = 0

\* led_breathe returns to the pattern that called it.
BreatheReturned ==
    /\ bpc = "ret"
    /\ bpc' = "idle"
    /\ UNCHANGED <<bled, bduty, rise, fall, delays>>

\* The task is inside pattern p at position l, outside led_breathe.
At(p, l) == pat = p /\ pc = l /\ bpc = "idle"

\* Everything a step that only moves control of a pattern leaves alone.
ControlOnly == UNCHANGED <<mainVars, hw, leds, rngNext, lastSet, lastDelay>>

\* The second loop started on the last LED again.
KrLoop2Init_Last == LED_COUNT - 1

\* The second loop run down to LED 0 inclusive.
KrLoop2Cond_Inclusive(k) == k >= 0

\* Second loop of pattern_knight_rider: int i = LED_COUNT - 2; i > 0
KrLoop2Init == LED_COUNT - 2
KrLoop2Cond(k) == k > 0

\* pattern_knight_rider is entered; first loop: int i = 0.
KnightRiderEnter ==
    /\ At("knight_rider", "entry")
    /\ pc' = "kr_loop1"
    /\ i' = 0
    /\ ResetPatObs
    /\ ControlOnly
    /\ UNCHANGED <<pat, count, led_index, breatheVars>>

\* for (i = 0; i < LED_COUNT; i++) led_breathe(i): the call.
KnightRiderLoop1Breathe ==
    /\ At("knight_rider", "kr_loop1")
    /\ i < LED_COUNT
    /\ CallBreathe(i)
    /\ ControlOnly
    /\ UNCHANGED <<patVars, ops, counts, blinks>>

\* ... the return of the call and i++.
KnightRiderLoop1Next ==
    /\ pat = "knight_rider" /\ pc = "kr_loop1"
    /\ BreatheReturned
    /\ i' = i + 1
    /\ ControlOnly
    /\ UNCHANGED <<pat, pc, count, led_index, patObs>>

\* ... the loop ends; second loop: int i = LED_COUNT - 2.
KnightRiderLoop1Exit ==
    /\ At("knight_rider", "kr_loop1")
    /\ ~(i < LED_COUNT)
    /\ pc' = "kr_loop2"
    /\ i' = KrLoop2Init
    /\ ControlOnly
    /\ UNCHANGED <<pat, count, led_index, breatheVars, patObs>>

\* for (i = LED_COUNT - 2; i > 0; i--) led_breathe(i): the call.
KnightRiderLoop2Breathe ==
    /\ At("knight_rider", "kr_loop2")
    /\ KrLoop2Cond(i)
    /\ CallBreathe(i)
    /\ ControlOnly
    /\ UNCHANGED <<patVars, ops, counts, blinks>>

\* ... the return of the call and i--.
KnightRiderLoop2Next ==
    /\ pat = "knight_rider" /\ pc = "kr_loop2"
    /\ BreatheReturned
    /\ i' = i - 1
    /\ ControlOnly
    /\ UNCHANGED <<pat, pc, count, led_index, patObs>>

\* ... the loop ends and pattern_knight_rider returns.
KnightRiderReturn ==
    /\ At("knight_rider", "kr_loop2")
    /\ ~KrLoop2Cond(i)
    /\ ReturnToTask
    /\ ControlOnly
    /\ UNCHANGED <<breatheVars, patObs>>

\* int max_count = 1 << LED_COUNT
max_count == 2 ^ LED_COUNT

\* The shift off by one: (count >> (k + 1)) & 1
Bit_OffByOne(c, k) == (c \div (2 ^ (k + 1))) % 2

\* (count >> k) & 1
Bit(c, k) == (c \div (2 ^ k)) % 2

\* pattern_binary_counter is entered; outer loop: int count = 0.
BinaryCounterEnter ==
    /\ At("binary_counter", "entry")
    /\ pc' = "bc_outer"
    /\ count' = 0
    /\ ResetPatObs
    /\ ControlOnly
    /\ UNCHANGED <<pat, i, led_index, breatheVars>>

\* for (count = 0; count < max_count; count++): the body starts, int i = 0.
BinaryCounterOuter ==
    /\ At("binary_counter", "bc_outer")
    /\ count < max_count
    /\ pc' = "bc_inner"
    /\ i' = 0
    /\ counts' = Append(counts, count)
    /\ ops' = <<>>
    /\ ControlOnly
    /\ UNCHANGED <<pat, count, led_index, breatheVars, visits, blinks>>

\* Inner loop body with bit set: led_breathe(i), the call.
BinaryCounterBreathe ==
    /\ At("binary_counter", "bc_inner")
    /\ i < LED_COUNT
    /\ Bit(count, i) # 0
    /\ CallBreathe(i)
    /\ ops' = Append(ops, <<"breathe", i>>)
    /\ ControlOnly
    /\ UNCHANGED <<patVars, counts, blinks>>

\* ... the return of the call and i++.
BinaryCounterNext ==
    /\ pat = "binary_counter" /\ pc = "bc_inner"
    /\ BreatheReturned
    /\ i' = i + 1
    /\ ControlOnly
    /\ UNCHANGED <<pat, pc, count, led_index, patObs>>

\* Inner loop body with bit clear: led_set_brightness(i, 0), and i++.
BinaryCounterZero ==
    /\ At("binary_counter", "bc_inner")
    /\ i < LED_COUNT
    /\ Bit(count, i) = 0
    /\ led_set_brightness(i, 0)
    /\ ops' = Append(ops, <<"set", i, 0>>)
    /\ i' = i + 1
    /\ UNCHANGED <<mainVars, leds, rngNext>>
    /\ UNCHANGED <<pat, pc, count, led_index, breatheVars, visits, counts, blinks>>

\* The inner loop ends: vTaskDelay(BLINK_DELAY), then count++.
BinaryCounterDelay ==
    /\ At("binary_counter", "bc_inner")
    /\ ~(i < LED_COUNT)
    /\ blinks' = blinks + 1
    /\ lastDelay' = BLINK_DELAY
    /\ count' = count + 1
    /\ pc' = "bc_outer"
    /\ i' = 0
    /\ UNCHANGED <<mainVars, hw, leds, rngNext, lastSet>>
    /\ UNCHANGED <<pat, led_index, breatheVars, visits, ops, counts>>

\* The outer loop ends and pattern_binary_counter returns.
BinaryCounterReturn ==
    /\ At("binary_counter", "bc_outer")
    /\ ~(count < max_count)
    /\ ReturnToTask
    /\ ControlOnly
    /\ UNCHANGED <<breatheVars, patObs>>

\* The C library's generator, scaled to RandMod states: the state after one
\* rand() call; rand() returns the new state, which is never negative.
rand(state) == (state * 5 + 3) % RandMod

\* The modulus off by one: rand() % (LED_COUNT + 1)
RandomIndex_Wide(r) == r % (LED_COUNT + 1)

\* rand() % LED_COUNT
RandomIndex(r) == r % LED_COUNT

\* pattern_random is entered; loop: int i = 0.
RandomEnter ==
    /\ At("random", "entry")
    /\ pc' = "rnd_loop"
    /\ i' = 0
    /\ ResetPatObs
    /\ ControlOnly
    /\ UNCHANGED <<pat, count, led_index, breatheVars>>

\* The loop body drawing from the entropy source instead of rand():
\* led_index = esp_random() % LED_COUNT.
RandomBreathe_Entropy ==
    /\ At("random", "rnd_loop")
    /\ i < RANDOM_ITERS
    /\ \E r \in 0..(RandMod - 1) : led_index' = RandomIndex(r)
    /\ CallBreathe(led_index')
    /\ UNCHANGED <<mainVars, hw, leds, rngNext, lastSet, lastDelay>>
    /\ UNCHANGED <<pat, pc, i, count, ops, counts, blinks>>

\* Loop body: led_index = rand() % LED_COUNT; led_breathe(led_index), the call.
RandomBreathe ==
    /\ At("random", "rnd_loop")
    /\ i < RANDOM_ITERS
    /\ rngNext' = rand(rngNext)
    /\ led_index' = RandomIndex(rngNext')
    /\ CallBreathe(led_index')
    /\ UNCHANGED <<mainVars, hw, leds, lastSet, lastDelay>>
    /\ UNCHANGED <<pat, pc, i, count, ops, counts, blinks>>

\* ... the return of the call, vTaskDelay(BLINK_DELAY), and i++.
RandomDelay ==
    /\ pat = "random" /\ pc = "rnd_loop"
    /\ BreatheReturned
    /\ blinks' = blinks + 1
    /\ lastDelay' = BLINK_DELAY
    /\ i' = i + 1
    /\ UNCHANGED <<mainVars, hw, leds, rngNext, lastSet>>
    /\ UNCHANGED <<pat, pc, count, led_index, visits, ops, counts>>

\* The loop ends and pattern_random returns.
RandomReturn ==
    /\ At("random", "rnd_loop")
    /\ ~(i < RANDOM_ITERS)
    /\ ReturnToTask
    /\ ControlOnly
    /\ UNCHANGED <<breatheVars, patObs>>

\* ------------------------------------------------------------ specification

\* app_main, on the main task.
MainNext == LedInitTimer \/ LedInitChannel \/ Srand \/ XTaskCreate

\* led_pattern_task and everything it calls.
TaskNext ==
    \/ BreatheRiseSet \/ BreatheRiseDelay \/ BreatheFallSet \/ BreatheFallDelay
    \/ KnightRiderEnter \/ KnightRiderLoop1Breathe \/ KnightRiderLoop1Next
    \/ KnightRiderLoop1Exit \/ KnightRiderLoop2Breathe \/ KnightRiderLoop2Next
    \/ KnightRiderReturn
    \/ BinaryCounterEnter \/ BinaryCounterOuter \/ BinaryCounterBreathe
    \/ BinaryCounterNext \/ BinaryCounterZero \/ BinaryCounterDelay
    \/ BinaryCounterReturn
    \/ RandomEnter \/ RandomBreathe \/ RandomDelay \/ RandomReturn

Next == MainNext \/ TaskNext

Spec == Init /\ [][Next]_vars

\* The pattern task is the only ready task once app_main has returned, and
\* every vTaskDelay expires, so the task always takes its next step.
FairSpec == Spec /\ WF_vars(TaskNext)

\* ------------------------------------------------------------ set-brightness harness

\* The duties a channel holds between two led_breathe calls of the program.
RestDuties == {0, BREATHE_MAX - (BREATHE_MAX \div DUTY_STEP) * DUTY_STEP}

\* After a successful led_init, with the channels at any resting duties, some
\* caller is about to call led_set_brightness.
InitSet ==
    /\ mainPc = "done"
    /\ initI = LED_COUNT
    /\ lastErr = ESP_OK
    /\ srandCalls = 1
    /\ tasks = 1
    /\ timerCfg = <<ledc_timer>>
    /\ leds = InitLeds
    /\ chanCfg = [c \in Channels |->
                    LET k == CHOOSE n \in 0..(LED_COUNT - 1) : InitLeds[n + 1].channel = c
                    IN << [speed_mode |-> LED_MODE, channel |-> c,
                           timer_sel |-> LED_TIMER,
                           gpio_num |-> InitLeds[k + 1].gpio,
                           duty |-> 0, hpoint |-> 0] >>]
    /\ duty \in [Channels -> RestDuties]
    /\ dutyReg = duty
    /\ rngNext = 1
    /\ pat = "harness"
    /\ pc = "call"
    /\ i = 0
    /\ count = 0
    /\ led_index = 0
    /\ bpc = "idle"
    /\ bled = 0
    /\ bduty = 0
    /\ visits = <<>>
    /\ ops = <<>>
    /\ counts = <<>>
    /\ blinks = 0
    /\ rise = <<>>
    /\ fall = <<>>
    /\ delays = 0
    /\ lastDelay = 0
    /\ lastSet = <<>>

\* One call led_set_brightness(idx, d), any valid index, any 10-bit duty.
HarnessSet ==
    /\ pat = "harness"
    /\ pc = "call"
    /\ \E idx \in 0..(LED_COUNT - 1), d \in 0..MaxDuty : led_set_brightness(idx, d)
    /\ pc' = "returned"
    /\ UNCHANGED <<mainVars, leds, rngNext, pat, i, count, led_index>>
    /\ UNCHANGED <<breatheVars, patObs>>

SetSpec == InitSet /\ [][HarnessSet]_vars

\* ------------------------------------------------------------ claims

\* The channel of LED descriptor k (C index).
ChannelOf(k) == leds[k + 1].channel

\* All duties written by the current (or latest) led_breathe call, in order.
writes == rise \o fall

\* C1: when led_breathe(i) completes, the committed duty of channel i is 0,
\* whatever the duty was when it started.
C1_BreatheEndsAtZero ==
    bpc = "ret" => duty[ChannelOf(bled)] = 0

\* Number of duty writes of one led_breathe call.
BreatheWrites == 2 * (BREATHE_MAX \div DUTY_STEP + 1)

\* C2: the duties one led_breathe call writes rise (non-strictly) to a single
\* peak, which is max_duty = 1023, and fall (non-strictly) after it; the
\* number of writes is the same constant for every call.
C2_BreatheUnimodal ==
    bpc = "ret" =>
        /\ Len(writes) = BreatheWrites
        /\ \E p \in 1..Len(writes) :
            /\ writes[p] = MaxDuty
            /\ \A k \in 1..Len(writes) : k # p => writes[k] < MaxDuty
            /\ \A k \in 1..(p - 1) : writes[k] <= writes[k + 1]
            /\ \A k \in p..(Len(writes) - 1) : writes[k] >= writes[k + 1]

\* A led_breathe call of the binary counter has completed its 206 writes,
\* the peak being the first write of the fall loop.
C2_Witness ==
    /\ bpc = "ret"
    /\ pat = "binary_counter"
    /\ Len(writes) = 206
    /\ fall[1] = 1023
    /\ rise[Len(rise)] < fall[1]

\* C3: the rise loop writes 0 first and max_duty = 1023 last, in steps of one
\* fixed increment, and every write of either loop is followed by exactly
\* one step delay before the next write.
C3_RiseZeroToMax ==
    /\ bpc \in {"rise_set", "fall_set", "ret"} => delays = Len(writes)
    /\ (bpc \in {"rise_set", "fall_set", "ret"} /\ writes # <<>>) =>
            lastDelay = STEP_DELAY
    /\ bpc \in {"rise_delay", "fall_delay"} => delays = Len(writes) - 1
    /\ bpc = "ret" =>
        /\ rise[1] = 0
        /\ rise[Len(rise)] = MaxDuty
        /\ \A k \in 1..(Len(rise) - 1) : rise[k + 1] - rise[k] = DUTY_STEP

\* The order in which one pattern_knight_rider call visits N LEDs:
\* 0..N-1 ascending, then N-2..1 descending.
ChaseOrder(n) == [k \in 1..(2 * n - 2) |-> IF k <= n THEN k - 1 ELSE 2 * n - 1 - k]

\* s is an initial segment of t.
IsPrefix(s, t) == Len(s) <= Len(t) /\ \A k \in 1..Len(s) : s[k] = t[k]

\* C4: one Chase invocation calls led_breathe on 0..N-1 ascending, then on
\* N-2..1 descending, and on nothing else; for N = 3 that is [0,1,2,1].
C4_ChaseOrder ==
    /\ (pat = "knight_rider" /\ pc # "entry") => IsPrefix(visits, ChaseOrder(LED_COUNT))
    /\ (pat = "binary_counter" /\ pc = "entry") =>
            /\ visits = ChaseOrder(LED_COUNT)
            /\ visits = <<0, 1, 2, 1>>

\* pattern_knight_rider has just returned after four led_breathe calls.
C4_Witness ==
    /\ pat = "binary_counter" /\ pc = "entry"
    /\ Len(visits) = 4
    /\ visits[4] = 1

\* Bit k of c is set (by remainders, independently of the shift in the code).
HasBit(c, k) == c % (2 ^ (k + 1)) >= 2 ^ k

\* What the inner loop of the binary counter does for count c, in order.
ExpectedOps(c) ==
    [k \in 1..LED_COUNT |->
        IF HasBit(c, k - 1) THEN <<"breathe", k - 1>> ELSE <<"set", k - 1, 0>>]

\* C5: one Binary Counter invocation steps count through 0..2^N-1 upwards;
\* for each count it handles LEDs 0..N-1 in ascending order, breathing LED i
\* exactly when bit i of count is 1 and else writing duty 0 to it, with
\* exactly one inter-step delay after the N LEDs and before the next count.
C5_BinaryCounter ==
    /\ (pat = "binary_counter" /\ pc # "entry") =>
        /\ Len(counts) <= 2 ^ LED_COUNT
        /\ \A k \in 1..Len(counts) : counts[k] = k - 1
    /\ (pat = "binary_counter" /\ pc = "bc_inner") =>
        /\ counts[Len(counts)] = count
        /\ blinks = count
        /\ Len(ops) = IF bpc = "idle" THEN i ELSE i + 1
        /\ IsPrefix(ops, ExpectedOps(count))
        /\ (bpc = "idle" /\ i > 0 /\ ~HasBit(count, i - 1)) =>
                duty[ChannelOf(i - 1)] = 0
        /\ (count = 5 /\ i = LED_COUNT) =>
                ops = << <<"breathe", 0>>, <<"set", 1, 0>>, <<"breathe", 2>> >>
        /\ count = 0 => \A k \in 1..Len(ops) : ops[k][1] = "set"
    /\ (pat = "binary_counter" /\ pc = "bc_outer") =>
        /\ Len(counts) = count
        /\ blinks = count
        /\ count > 0 => ops = ExpectedOps(count - 1) /\ lastDelay = BLINK_DELAY
    /\ (pat = "random" /\ pc = "entry") =>
        /\ counts = [k \in 1..(2 ^ LED_COUNT) |-> k - 1]
        /\ blinks = 2 ^ LED_COUNT
        /\ ops = ExpectedOps(2 ^ LED_COUNT - 1)

\* Count 5 has been shown (LEDs 0 and 2 breathed, LED 1 zeroed) and its
\* inter-step delay has passed.
C5_Witness ==
    /\ pat = "binary_counter" /\ pc = "bc_outer"
    /\ count = 6
    /\ blinks = 6
    /\ ops = << <<"breathe", 0>>, <<"set", 1, 0>>, <<"breathe", 2>> >>

\* C6: one Random invocation makes exactly 6 iterations; each draws an LED
\* index in [0, N), calls led_breathe once on it, and is followed by one
\* inter-step delay, whatever the generator returns.
C6_RandomInRange ==
    /\ (pat = "random" /\ pc = "rnd_loop") =>
        /\ i <= 6
        /\ led_index \in 0..(LED_COUNT - 1)
        /\ \A k \in 1..Len(visits) : visits[k] \in 0..(LED_COUNT - 1)
        /\ blinks = i
        /\ (bpc = "idle" /\ i > 0) => lastDelay = BLINK_DELAY
        /\ Len(visits) = IF bpc = "idle" THEN i ELSE i + 1
        /\ bpc # "idle" => bled = led_index /\ visits[Len(visits)] = led_index
    /\ (pat = "knight_rider" /\ pc = "entry" /\ lastSet # <<>>) =>
        /\ Len(visits) = 6
        /\ blinks = 6
        /\ \A k \in 1..Len(visits) : visits[k] \in 0..(LED_COUNT - 1)

\* pattern_random has just returned, having drawn more than one LED.
C6_Witness ==
    /\ pat = "knight_rider" /\ pc = "entry"
    /\ Len(visits) = 6
    /\ blinks = 6
    /\ \E k \in 1..6 : visits[k] # visits[1]

\* The pattern that follows p in the documented cycle.
Follows(p, q) ==
    \/ p = "none" /\ q = "knight_rider"
    \/ p = "knight_rider" /\ q = "binary_counter"
    \/ p = "binary_counter" /\ q = "random"
    \/ p = "random" /\ q = "knight_rider"

\* C7: the pattern task never exits and runs Chase, Binary Counter, Random
\* in that cyclic order: every pattern invocation terminates and is followed
\* by the next in the cycle, and each pattern starts again and again.
C7_CyclicForever ==
    /\ [][pat # "none" => pat' # "none"]_vars
    /\ [][pat' # pat => Follows(pat, pat')]_vars
    /\ (pat = "knight_rider") ~> (pat = "binary_counter")
    /\ (pat = "binary_counter") ~> (pat = "random")
    /\ (pat = "random") ~> (pat = "knight_rider")
    /\ \A p \in {"knight_rider", "binary_counter", "random"} :
            (pat # "none") ~> (pat = p /\ pc = "entry")

\* The task has come round: Chase starts again after a Random invocation.
C7_Witness ==
    /\ pat = "knight_rider" /\ pc = "entry"
    /\ Len(visits) = 6
    /\ lastSet # <<>>

\* Number of set bits of c among bits 0..n-1.
RECURSIVE PopCount(_, _)
PopCount(c, n) == IF n = 0 THEN 0 ELSE (c % 2) + PopCount(c \div 2, n - 1)

\* Number of led_breathe calls among the operations s.
RECURSIVE BreatheOps(_)
BreatheOps(s) ==
    IF s = <<>> THEN 0
    ELSE (IF Head(s)[1] = "breathe" THEN 1 ELSE 0) + BreatheOps(Tail(s))

\* C8: with N = 3 every scheduler cycle makes the same number of led_breathe
\* calls: 4 in Chase, for each of the 8 counter values as many as it has set
\* bits (0 to 3), and 6 in Random whatever is drawn.
C8_BreatheCalls ==
    /\ (pat = "binary_counter" /\ pc = "entry") => Len(visits) = 4
    /\ (pat = "binary_counter" /\ pc = "bc_outer" /\ count > 0) =>
        /\ BreatheOps(ops) = PopCount(count - 1, LED_COUNT)
        /\ BreatheOps(ops) \in 0..3
        /\ count <= 8
    /\ (pat = "random" /\ pc = "entry") => Len(visits) = 12 /\ Len(counts) = 8
    /\ (pat = "knight_rider" /\ pc = "entry" /\ lastSet # <<>>) => Len(visits) = 6

\* A Chase has finished with four calls, every LED back at its resting duty.
C8_Witness ==
    /\ pat = "binary_counter" /\ pc = "entry"
    /\ Len(visits) = 4
    /\ duty = [c \in Channels |-> 3]

\* C9: immediately after led_set_brightness(i, d), for any i in [0, N) and
\* d in [0, max_duty], the duty of channel i is d, both set and committed.
C9_SetThenRead ==
    lastSet # <<>> =>
        /\ duty[ChannelOf(lastSet[1])] = lastSet[2]
        /\ dutyReg[ChannelOf(lastSet[1])] = lastSet[2]

\* led_set_brightness(2, 512) has returned on a channel that held another duty.
C9_Witness ==
    /\ pat = "harness" /\ pc = "returned"
    /\ lastSet = <<2, 512>>
    /\ duty[LED3_CH] = 512

\* The C indices whose channel led_init has configured.
Configured == { k \in 0..(LED_COUNT - 1) : chanCfg[ChannelOf(k)] # <<>> }

\* C10: when the timer configuration or a channel configuration fails, the
\* process aborts there: no later channel is configured, the pattern task is
\* never created and no duty is ever written.
C10_AbortOnConfigFailure ==
    /\ lastErr # ESP_OK =>
        /\ mainPc = "aborted"
        /\ pat = "none"
        /\ lastSet = <<>>
        /\ Configured = IF timerCfg = <<>> THEN {} ELSE 0..(initI - 1)
    /\ mainPc = "aborted" => lastErr # ESP_OK
    /\ (pat # "none" \/ lastSet # <<>>) => (lastErr = ESP_OK /\ mainPc = "done")

\* The second channel configuration failed: the process stopped with only
\* the first channel configured.
C10_Witness ==
    /\ mainPc = "aborted"
    /\ lastErr = ESP_FAIL
    /\ Configured = {0}
    /\ pat = "none"

\* led_init has run to its end: the timer and every channel are configured,
\* each channel bound to its descriptor's pin with initial duty 0.
StartupConfigured ==
    /\ timerCfg # <<>>
    /\ \A k \in 0..(LED_COUNT - 1) :
        /\ chanCfg[ChannelOf(k)] # <<>>
        /\ chanCfg[ChannelOf(k)][1].gpio_num = leds[k + 1].gpio
        /\ chanCfg[ChannelOf(k)][1].duty = 0

\* C11: startup runs once and in order: the timer and all N channels are
\* configured at duty 0, then the generator is seeded exactly once, then
\* exactly one pattern task is created; no duty write and no random draw
\* comes earlier, and every duty write is a step of that task, none of
\* app_main.
C11_StartupOrder ==
    /\ [](srandCalls <= 1 /\ tasks <= 1)
    /\ [](Configured # {} => timerCfg # <<>>)
    /\ [](srandCalls = 1 => StartupConfigured)
    /\ []((mainPc \in {"srand", "xTaskCreate"}) => \A c \in Channels : duty[c] = 0)
    /\ [](tasks = 1 => (srandCalls = 1 /\ StartupConfigured /\ mainPc = "done"))
    /\ []((pat # "none" \/ lastSet # <<>>) => tasks = 1)
    /\ [][RandomBreathe => (tasks = 1 /\ srandCalls = 1)]_vars
    /\ [][rngNext' # rngNext => (Srand \/ (RandomBreathe /\ tasks = 1))]_vars
    /\ [][lastSet' # lastSet => (TaskNext /\ ~MainNext /\ tasks = 1)]_vars

\* The one pattern task, created after the one seeding, has made the first
\* duty write of the program.
C11_Witness ==
    /\ tasks = 1
    /\ srandCalls = 1
    /\ mainPc = "done"
    /\ pat = "knight_rider"
    /\ lastSet = <<0, 0>>
    /\ rise = <<0>>

\* C12: the descriptor array always equals its initial value, its channel
\* identifiers are pairwise distinct and each is bound to exactly one pin,
\* and every LED index handed to led_set_brightness or led_breathe is in
\* [0, N).
C12_DescriptorsFixed ==
    /\ leds = InitLeds
    /\ \A a, b \in 1..Len(leds) :
        /\ a # b => leds[a].channel # leds[b].channel
        /\ leds[a].channel = leds[b].channel => leds[a].gpio = leds[b].gpio
    /\ \A k \in 0..(LED_COUNT - 1) :
        chanCfg[ChannelOf(k)] # <<>> =>
            chanCfg[ChannelOf(k)][1].gpio_num = leds[k + 1].gpio
    /\ lastSet # <<>> => lastSet[1] \in 0..(Len(leds) - 1)
    /\ bpc # "idle" => bled \in 0..(Len(leds) - 1)
    /\ \A k \in 1..Len(visits) : visits[k] \in 0..(Len(leds) - 1)

\* The Random pattern is breathing the last LED of the unchanged array.
C12_Witness ==
    /\ leds = InitLeds
    /\ pat = "random"
    /\ bpc = "fall_delay"
    /\ bled = LED_COUNT - 1
    /\ lastSet = <<LED_COUNT - 1, 1023>>

\* The duties of one led_breathe call, in order: 0, 10, ..., 1020, then
\* 1023, 1013, ..., 3.
BreatheDuties ==
    [k \in 1..206 |-> IF k <= 103 THEN 10 * (k - 1) ELSE 1023 - 10 * (k - 104)]

\* A step of the Random pattern that draws an index and calls led_breathe.
IsDraw == pat = "random" /\ Len(visits') > Len(visits)

\* C13: the run is a function of the seed: each draw takes the generator
\* from its state to the next and the index from that, and nothing but
\* srand and a draw changes the generator, so two runs from one seed draw
\* the same indices and make the same (LED, duty) writes; and every Chase and
\* every Binary Counter invocation, in any cycle, visits the same LEDs in the
\* same order and writes the same duties to each.
C13_SeedDetermines ==
    /\ [][IsDraw => /\ rngNext' = rand(rngNext)
                    /\ led_index' = RandomIndex(rand(rngNext))
                    /\ visits' = Append(visits, led_index')
                    /\ bled' = led_index']_vars
    /\ [][rngNext' # rngNext => (mainPc = "srand" \/ IsDraw)]_vars
    /\ [](bpc = "ret" => writes = BreatheDuties)
    /\ []((bpc \in {"rise_delay", "fall_delay"}) =>
            lastSet = <<bled, writes[Len(writes)]>>)
    /\ []((pat = "binary_counter" /\ pc = "entry") => visits = <<0, 1, 2, 1>>)
    /\ []((pat = "binary_counter" /\ pc = "bc_outer" /\ count > 0) =>
            ops = ExpectedOps(count - 1))
    /\ []((pat = "random" /\ pc = "entry") =>
            visits = <<0, 1, 0, 1, 2, 0, 2, 1, 2, 0, 1, 2>>)

\* The sixth draw of a Random invocation has been breathed: its index is
\* the one the generator's state gives.
C13_Witness ==
    /\ pat = "random"
    /\ bpc = "ret"
    /\ Len(visits) = 6
    /\ visits[6] = RandomIndex(rngNext)
    /\ writes = BreatheDuties

\* C14: every duty handed to led_set_brightness, by led_breathe or by a
\* pattern, lies in [0, 1023], the 10-bit range.
C14_DutyInRange ==
    /\ lastSet # <<>> => lastSet[2] \in 0..1023
    /\ bpc \in {"rise_set", "fall_set"} => bduty \in 0..1023
    /\ \A k \in 1..Len(writes) : writes[k] >= 0 /\ writes[k] <= MaxDuty
    /\ \A c \in Channels : dutyReg[c] \in 0..1023 /\ duty[c] \in 0..1023

\* led_breathe has just handed the largest duty, 1023, to led_set_brightness.
C14_Witness ==
    /\ bpc = "fall_delay"
    /\ lastSet[2] = 1023
    /\ Len(fall) = 1
    /\ rise[Len(rise)] = 1020

\* C15: at most one LED is lit above the resting level: whenever one LED's
\* committed duty is greater than 3, every other LED's is at most 3.
C15_OneLedLit ==
    \A a, b \in 0..(LED_COUNT - 1) :
        (a # b /\ duty[ChannelOf(a)] > 3) => duty[ChannelOf(b)] <= 3

\* LED 1 is at its peak while LED 0 rests at 3 and LED 2 at 0.
C15_Witness ==
    /\ duty[ChannelOf(1)] = 1023
    /\ duty[ChannelOf(0)] = 3
    /\ duty[ChannelOf(2)] = 0

\* Channel c keeps its set and its committed duty over the step.
KeepsDuty(c) == duty'[c] = duty[c] /\ dutyReg'[c] = dutyReg[c]

\* C16: led_set_brightness(i, d) changes the duty of the channel of
\* descriptor i only, so while led_breathe(i) runs every other LED's duty
\* stays as it was.
C16_OtherChannelsKept ==
    /\ [][lastSet' # lastSet =>
            \A c \in Channels : c # ChannelOf(lastSet'[1]) => KeepsDuty(c)]_vars
    /\ [][(BreatheRiseSet \/ BreatheFallSet \/ BinaryCounterZero) =>
            \A c \in Channels : c # ChannelOf(lastSet'[1]) => KeepsDuty(c)]_vars
    /\ [][bpc # "idle" =>
            \A c \in Channels : c # ChannelOf(bled) => KeepsDuty(c)]_vars

\* led_breathe(2) is half way down while LEDs 0 and 1 still rest at 3.
C16_Witness ==
    /\ bled = 2
    /\ bpc = "fall_set"
    /\ duty[ChannelOf(2)] > 3
    /\ duty[ChannelOf(2)] < 600
    /\ duty[ChannelOf(0)] = 3
    /\ duty[ChannelOf(1)] = 3

\* LED k is at its peak duty inside a led_breathe(k) call.
AtPeak(k) == bpc # "idle" /\ bled = k /\ duty[ChannelOf(k)] = 1023

\* C17: once the pattern task runs, under fair scheduling every LED is
\* breathed again and again: each LED reaches its peak duty in every
\* scheduler cycle (already within its Chase), whatever is drawn.
C17_EveryLedBreathes ==
    \A k \in 0..(LED_COUNT - 1) :
        /\ (pat # "none") ~> AtPeak(k)
        /\ (pat = "knight_rider" /\ pc = "entry") ~> (pat = "knight_rider" /\ AtPeak(k))

\* In a Chase the last LED is at its peak while the first, breathed before
\* it, rests at 3.
C17_Witness ==
    /\ pat = "knight_rider"
    /\ AtPeak(LED_COUNT - 1)
    /\ duty[ChannelOf(0)] = 3
    /\ mainPc = "done"

====
